---- MODULE Spec2Model ----
(***************************************************************************)
(* The rst_to_md Translator (src/rst_to_md/translator.py): a docutils      *)
(* NodeVisitor that renders a node tree into Markdown through a stack of   *)
(* self-finalizing Contexts.                                               *)
(*                                                                         *)
(* A text is a sequence of atoms.  Every character that the code inspects  *)
(* (line breaks, spaces, '>', the characters deunicode replaces) is an     *)
(* atom of its own; a fixed piece of a format string that no operation     *)
(* looks into ("<sub>", a class name, ...) may be one atom.  A body is     *)
(* a sequence of texts (the fragments of Context.body).                    *)
(*                                                                         *)
(* The node tree is not stored: the docutils driver (Node.walkabout) is    *)
(* modelled by the path of open nodes, and every visit draws the kind and  *)
(* the attributes of the next child from small sets, so that every tree    *)
(* within the bounds is traversed.                                         *)
(***************************************************************************)
EXTENDS Integers, Sequences, FiniteSets, TLC

VARIABLES
    pc,             \* "start" | "walk" | "done" | "error": position of the driver
    path,           \* the open nodes, root first (walkabout's recursion stack)
    _context,       \* Translator._context
    section_level,  \* Translator.section_level
    _docinfo,       \* Translator._docinfo
    _warned,        \* the module-level set _warned
    warnings,       \* the reporter.warning calls of the process: document, kind
    nodes,          \* nodes visited so far in the process
    docs,           \* translations started so far in the process
    last            \* the hook that ran last, with what it read and wrote

vars == <<pc, path, _context, section_level, _docinfo, _warned, warnings,
          nodes, docs, last>>

----------------------------------------------------------------------------
(* Bounds *)

MaxNodes == 3

MaxDepth == 4

MaxDocs == 2

----------------------------------------------------------------------------
(* Texts *)

NL == "\n"

SP == " "

NBSP == "\\xa0"

DAGGER == "\\u2020"

\* the backquote character
TICK == "BACKQUOTE"

\* ''.join(fragments)
RECURSIVE Join(_)
Join(frags) ==
    IF frags = <<>> THEN <<>> ELSE Head(frags) \o Join(Tail(frags))

\* text.startswith(prefix)
StartsWith(text, prefix) ==
    /\ Len(text) >= Len(prefix)
    /\ SubSeq(text, 1, Len(prefix)) = prefix

\* text.replace(old, new): the non-overlapping occurrences of old, found
\* left to right, each replaced by new (old is never empty here)
RECURSIVE Replace(_, _, _)
Replace(text, old, new) ==
    IF text = <<>> THEN <<>>
    ELSE IF StartsWith(text, old)
         THEN new \o Replace(SubSeq(text, Len(old) + 1, Len(text)), old, new)
         ELSE <<Head(text)>> \o Replace(Tail(text), old, new)

Whitespace == {NL, SP}

RECURSIVE LStrip(_)
LStrip(text) ==
    IF text # <<>> /\ Head(text) \in Whitespace THEN LStrip(Tail(text)) ELSE text

RECURSIVE RStrip(_)
RStrip(text) ==
    IF text # <<>> /\ text[Len(text)] \in Whitespace
    THEN RStrip(SubSeq(text, 1, Len(text) - 1))
    ELSE text

\* text.strip()
Strip(text) == RStrip(LStrip(text))

\* n * '#'
Hashes(n) == [i \in 1..n |-> "#"]

\* [f(e) for e in seq]
Map(f(_), seq) == [i \in 1..Len(seq) |-> f(seq[i])]

Last(seq) == seq[Len(seq)]

\* a Python slice: the elements of seq at the positions from..to that exist
Slice(seq, from, to) ==
    LET lo == IF from > 1 THEN from ELSE 1
        hi == IF to < Len(seq) THEN to ELSE Len(seq)
    IN  [i \in 1..(hi - lo + 1) |-> seq[lo + i - 1]]

Front(seq) == SubSeq(seq, 1, Len(seq) - 1)

----------------------------------------------------------------------------
(* class Context *)

\* Context.__init__; cls names the class whose finalize applies, owner is the
\* id of the node whose visit hook pushed the context (0: the root context,
\* made by Translator.__init__), finalized counts the calls of finalize
Context(cls, language, owner) ==
    [cls |-> cls, language |-> language, head |-> <<>>, body |-> <<>>,
     foot |-> <<>>, owner |-> owner, finalized |-> 0]

\* put_head writing to the body
put_head_to_body(self, text) == [self EXCEPT !.body = Append(@, text)]

put_head(self, text) == [self EXCEPT !.head = Append(@, text)]

put_body(self, text) == [self EXCEPT !.body = Append(@, text)]

put_foot(self, text) == [self EXCEPT !.foot = Append(@, text)]

\* Context.__add__
Context_add(self, other) ==
    [self EXCEPT !.head = @ \o other.head,
                 !.body = @ \o other.body,
                 !.foot = @ \o other.foot]

\* Context.astext
Context_astext(self) == Join(self.head \o self.body \o self.foot)

\* the language LiteralContext.finalize writes on the opening fence
FenceLanguage(self) ==
    IF /\ self.body # <<>>
       /\ StartsWith(self.body[1], <<">", ">", ">">>)
       /\ self.language = "python"
    THEN "pycon"
    ELSE self.language

\* LiteralContext.finalize
LiteralContext_finalize(self) ==
    [self EXCEPT !.body = << <<TICK, TICK, TICK, FenceLanguage(self), NL>> >> \o @
                          \o << <<NL, TICK, TICK, TICK, NL, NL>> >>]

QuoteLine(line) == <<">", SP>> \o line

QuoteBreaks(line) == Replace(line, <<NL>>, <<NL, ">", SP>>)

\* QuoteContext.finalize
QuoteContext_finalize(self) ==
    LET quoted == Map(QuoteLine, Slice(self.body, 1, 1))
                  \o Slice(self.body, 2, Len(self.body))
    IN  [self EXCEPT !.body = Map(QuoteBreaks, Slice(quoted, 1, Len(quoted) - 1))
                              \o Slice(quoted, Len(quoted), Len(quoted))]

\* fix_crs of visit_list_item
fix_crs(text) ==
    Replace(Replace(text, <<NL>>, <<NL, SP, SP>>), <<NL, SP, SP, NL>>, <<NL, NL>>)

ItemFront(l) == <<"-", SP>> \o fix_crs(l)

\* ListItemContext.finalize
ListItemContext_finalize(self) ==
    LET front  == Map(ItemFront, Slice(self.body, 1, 1))
        middle == Map(fix_crs, Slice(self.body, 2, Len(self.body) - 1))
        back   == Slice(self.body, Len(self.body), Len(self.body))
    IN  [self EXCEPT !.body = front \o middle \o back]

\* MathContext.finalize
MathContext_finalize(self) ==
    [self EXCEPT !.body = << <<"$", "$", NL>> >> \o Map(Strip, @)
                          \o << <<NL, "$", "$", NL, NL>> >>]

\* ctx.finalize(), dispatched on the class of ctx
finalize(self) ==
    LET done == CASE self.cls = "LiteralContext"  -> LiteralContext_finalize(self)
                  [] self.cls = "QuoteContext"    -> QuoteContext_finalize(self)
                  [] self.cls = "ListItemContext" -> ListItemContext_finalize(self)
                  [] self.cls = "MathContext"     -> MathContext_finalize(self)
                  [] OTHER                        -> self
    IN  [done EXCEPT !.finalized = @ + 1]

----------------------------------------------------------------------------
(* class Translator: utility methods *)

\* Translator.output
output == _context[Len(_context)]

\* Translator.push_context
push_context(stack, ctx) == Append(stack, ctx)

\* pop_context without the call of finalize
pop_context_unfinalized(stack) ==
    LET head == stack[Len(stack)]
        rest == SubSeq(stack, 1, Len(stack) - 1)
    IN  [rest EXCEPT ![Len(rest)] = Context_add(@, head)]

\* Translator.pop_context
pop_context(stack) ==
    LET head == finalize(stack[Len(stack)])
        rest == SubSeq(stack, 1, Len(stack) - 1)
    IN  [rest EXCEPT ![Len(rest)] = Context_add(@, head)]

\* Translator.astext
astext == Context_astext(output)

\* Translator.deunicode
deunicode(text) ==
    Replace(Replace(text, <<NBSP>>, <<SP>>), <<DAGGER>>, <<"\\", "(", "d", "g">>)

\* Translator.defs
defs ==
    [emphasis    |-> << <<"*">>, <<"*">> >>,
     problematic |-> << <<NL, NL>>, <<NL, NL>> >>,
     strong      |-> << <<"*", "*">>, <<"*", "*">> >>,
     subscript   |-> << <<"<sub>">>, <<"</sub>">> >>,
     superscript |-> << <<"<sup>">>, <<"</sup>">> >>,
     literal     |-> << <<TICK>>, <<TICK>> >>,
     math        |-> << <<"$">>, <<"$">> >>]

\* Translator._docinfo as Translator.__init__ sets it
EmptyDocinfo ==
    [title |-> <<>>, subtitle |-> <<>>, author |-> <<>>, date |-> <<>>,
     copyright |-> <<>>, version |-> <<>>]

----------------------------------------------------------------------------
(* The node kinds and the hooks bound to them *)

\* rst_elements, as the tuple is written: 'tbody,' 'term' is one string
rst_elements ==
    {"abbreviation", "acronym", "address", "admonition",
     "attention", "attribution", "author", "authors",
     "block_quote", "bullet_list",
     "caption", "caution", "citation", "citation_reference", "classifier",
     "colspec", "comment", "compound", "contact", "container",
     "copyright",
     "danger", "date", "decoration", "definition", "definition_list",
     "definition_list_item", "description", "docinfo", "doctest_block",
     "document",
     "emphasis", "entry", "enumerated_list", "error",
     "field", "field_body", "field_list", "field_name", "figure", "footer",
     "footnote", "footnote_reference",
     "generated",
     "header", "hint",
     "image", "important", "inline",
     "label", "legend", "line", "line_block", "list_item", "literal",
     "literal_block",
     "math", "math_block",
     "note",
     "option", "option_argument", "option_group", "option_list",
     "option_list_item", "option_string", "organization",
     "paragraph", "pending", "problematic",
     "raw", "reference", "revision", "row", "rubric",
     "section", "sidebar", "status", "strong", "subscript",
     "substitution_definition", "substitution_reference", "subtitle",
     "superscript", "system_message",
     "table", "target", "tbody,term", "tgroup", "thead", "tip", "title",
     "title_reference", "topic", "transition",
     "version",
     "warning"}

\* the kinds X for which class Translator defines visit_X
VisitDefined ==
    {"literal_block", "literal", "inline", "block_quote", "Text", "comment",
     "document", "emphasis", "paragraph", "problematic", "section", "strong",
     "subscript", "subtitle", "superscript", "system_message", "title",
     "transition", "bullet_list", "enumerated_list", "list_item", "reference",
     "target", "math", "math_block"}

\* the kinds X for which class Translator defines depart_X
DepartDefined ==
    {"literal_block", "literal", "inline", "block_quote", "Text",
     "document", "emphasis", "paragraph", "problematic", "section", "strong",
     "subscript", "superscript", "system_message", "title",
     "bullet_list", "enumerated_list", "list_item", "reference",
     "target", "math", "math_block"}

\* the kinds to which the loop at the end of the module binds visit_unsupported
Unsupported == {element \in rst_elements : element \notin VisitDefined}

\* the kinds whose visit hook pushes a context
Pushing == {"literal_block", "block_quote", "list_item", "math_block"}

----------------------------------------------------------------------------
(* The inputs: what the nodes of a document may be *)

\* node.astext() of a Text node
Texts ==
    {<<"a">>, <<"a", NL, "b">>, <<">", ">">>, <<">", ">", ">", "a">>,
     <<"a", NL, NL, NL, "b">>}

\* node.astext() of a title
TitleTexts == {<<"T">>, <<"U", NBSP, DAGGER>>}

\* node.astext() of a subtitle or of a docinfo item
DocinfoTexts == {<<"S">>}

\* node.attributes['classes'] of a literal block
ClassLists == {<<>>, <<"code", "python">>, <<"code-block", "ruby", "python">>}

\* node.attributes.get('refuri') of a reference: a reference to a target of
\* the same document carries refid and no refuri
None == <<"None">>

RefUris == {None, <<"http://example.com">>}

\* the kinds bound to visit_unsupported that the documents of the model use:
\* the docinfo items and one more
UnsupportedSample == {"author", "date", "copyright", "version", "image"}

\* the kinds of docutils that the documents of the model use and for which
\* the Translator has no visit hook
UnhookedSample == {k \in {"tbody", "term"} : k \notin VisitDefined \cup Unsupported}

----------------------------------------------------------------------------
(* The driver: docutils' Node.walkabout, which calls the hooks *)

Node(kind, refuri) == [id |-> nodes + 1, kind |-> kind, refuri |-> refuri]

NoContext == Context("None", "", 0)

\* what `last` records of a hook: its kind of node, the text or the classes
\* of the node that the hook reads, for a pop the context as it was popped
\* and as it was merged, whether the hook raised SkipNode, whether it warned
Ran(op, kind, text) ==
    [op |-> op, kind |-> kind, text |-> text, popped |-> NoContext,
     merged |-> NoContext, skipped |-> FALSE, warned |-> FALSE]

\* the next child of the innermost open node is reached
Reach == pc = "walk" /\ nodes < MaxNodes

\* the visit hook returned: the children of the node are walked next
Descend(kind, refuri) ==
    /\ Len(path) < MaxDepth
    /\ path' = Append(path, Node(kind, refuri))
    /\ nodes' = nodes + 1

\* the visit hook raised SkipNode: neither children nor departure
SkipNode ==
    /\ path' = path
    /\ nodes' = nodes + 1

\* the children of the innermost open node are exhausted
Departing(kind) ==
    /\ pc = "walk"
    /\ Len(path) > 1
    /\ Last(path).kind = kind

Leave == path' = Front(path)

PutBody(text) ==
    _context' = [_context EXCEPT ![Len(_context)] = put_body(@, text)]

Keep == UNCHANGED <<pc, section_level, _docinfo, _warned, warnings, docs>>

----------------------------------------------------------------------------
(* class Translator: construction and the root of the tree *)

\* Translator.__init__: the state of a fresh translator; _warned belongs to
\* the module and outlives it
Construct ==
    /\ pc' = "start"
    /\ path' = <<>>
    /\ _context' = <<Context("Context", "", 0)>>
    /\ section_level' = 0
    /\ _docinfo' = EmptyDocinfo
    /\ last' = Ran("__init__", "document", <<>>)

Init ==
    /\ pc = "start"
    /\ path = <<>>
    /\ _context = <<Context("Context", "", 0)>>
    /\ section_level = 0
    /\ _docinfo = EmptyDocinfo
    /\ _warned = {}
    /\ warnings = <<>>
    /\ nodes = 0
    /\ docs = 1
    /\ last = Ran("__init__", "document", <<>>)

\* a further document is translated in the same process
Translator_init ==
    /\ pc \in {"done", "error"}
    /\ docs < MaxDocs
    /\ Construct
    /\ docs' = docs + 1
    /\ UNCHANGED <<_warned, warnings, nodes>>

visit_document ==
    /\ pc = "start"
    /\ pc' = "walk"
    /\ path' = <<[id |-> 0, kind |-> "document", refuri |-> None]>>
    /\ last' = Ran("visit", "document", <<>>)
    /\ UNCHANGED <<_context, section_level, _docinfo, _warned, warnings,
                   nodes, docs>>

\* the walk returns to the caller, who reads astext()
depart_document ==
    /\ pc = "walk"
    /\ Len(path) = 1
    /\ pc' = "done"
    /\ path' = <<>>
    /\ last' = Ran("depart", "document", <<>>)
    /\ UNCHANGED <<_context, section_level, _docinfo, _warned, warnings,
                   nodes, docs>>

----------------------------------------------------------------------------
(* Node visitor methods *)

\* the language visit_literal_block chooses
RECURSIVE Language(_)
Language(classes) ==
    IF classes = <<>> THEN "python"
    ELSE IF Head(classes) \notin {"code", "code-block"} THEN Head(classes)
         ELSE Language(Tail(classes))

\* a visit hook that pushes ctx
VisitPush(kind, ctx, read) ==
    /\ Reach
    /\ Descend(kind, None)
    /\ _context' = push_context(_context, ctx)
    /\ last' = Ran("visit", kind, read)
    /\ Keep

\* a depart hook that pops
DepartPop(kind) ==
    /\ Departing(kind)
    /\ Leave
    /\ _context' = pop_context(_context)
    /\ last' = [Ran("depart", kind, <<>>) EXCEPT !.popped = output,
                                                 !.merged = finalize(output)]
    /\ UNCHANGED nodes
    /\ Keep

\* a visit hook that writes text to the body
VisitPut(kind, text) ==
    /\ Reach
    /\ Descend(kind, None)
    /\ PutBody(text)
    /\ last' = Ran("visit", kind, text)
    /\ Keep

\* a depart hook that writes text to the body
DepartPut(kind, text) ==
    /\ Departing(kind)
    /\ Leave
    /\ PutBody(text)
    /\ last' = Ran("depart", kind, text)
    /\ UNCHANGED nodes
    /\ Keep

\* a visit hook that is pass
VisitPass(kind) ==
    /\ Reach
    /\ Descend(kind, None)
    /\ last' = Ran("visit", kind, <<>>)
    /\ UNCHANGED _context
    /\ Keep

\* a depart hook that is pass
DepartPass(kind) ==
    /\ Departing(kind)
    /\ Leave
    /\ last' = Ran("depart", kind, <<>>)
    /\ UNCHANGED <<_context, nodes>>
    /\ Keep

visit_literal_block ==
    \E classes \in ClassLists :
        VisitPush("literal_block",
                  Context("LiteralContext", Language(classes), nodes + 1),
                  classes)

depart_literal_block == DepartPop("literal_block")

visit_literal == VisitPut("literal", defs.literal[1])

depart_literal == DepartPut("literal", defs.literal[2])

visit_inline == VisitPass("inline")

depart_inline == DepartPass("inline")

visit_block_quote ==
    VisitPush("block_quote", Context("QuoteContext", "", nodes + 1), <<>>)

depart_block_quote == DepartPop("block_quote")

\* visit_Text, and depart_Text (pass) right after it: a Text has no children
visit_Text ==
    \E text \in Texts :
        /\ Reach
        /\ path' = path
        /\ nodes' = nodes + 1
        /\ PutBody(text)
        /\ last' = Ran("visit", "Text", text)
        /\ Keep

visit_comment ==
    /\ Reach
    /\ SkipNode
    /\ last' = [Ran("visit", "comment", <<>>) EXCEPT !.skipped = TRUE]
    /\ UNCHANGED _context
    /\ Keep

\* the _docinfo that visit_docinfo_item leaves
docinfo_item(info, name, text) ==
    IF name = "author"
    THEN [info EXCEPT ![name] = Append(@, text)]
    ELSE [info EXCEPT ![name] = text]

visit_emphasis == VisitPut("emphasis", defs.emphasis[1])

depart_emphasis == DepartPut("emphasis", defs.emphasis[2])

visit_paragraph == VisitPass("paragraph")

depart_paragraph == DepartPut("paragraph", <<NL, NL>>)

visit_problematic == VisitPut("problematic", defs.problematic[1])

depart_problematic == DepartPut("problematic", defs.problematic[2])

visit_section ==
    /\ Reach
    /\ Descend("section", None)
    /\ section_level' = section_level + 1
    /\ last' = Ran("visit", "section", <<>>)
    /\ UNCHANGED <<pc, _context, _docinfo, _warned, warnings, docs>>

depart_section ==
    /\ Departing("section")
    /\ Leave
    /\ section_level' = section_level - 1
    /\ last' = Ran("depart", "section", <<>>)
    /\ UNCHANGED <<pc, _context, _docinfo, _warned, warnings, nodes, docs>>

visit_strong == VisitPut("strong", defs.strong[1])

depart_strong == DepartPut("strong", defs.strong[2])

visit_subscript == VisitPut("subscript", defs.subscript[1])

depart_subscript == DepartPut("subscript", defs.subscript[2])

\* isinstance(node.parent, nodes.document)
ParentIsDocument == Last(path).kind = "document"

visit_subtitle ==
    \E text \in DocinfoTexts :
        /\ Reach
        /\ IF ParentIsDocument
           THEN /\ _docinfo' = docinfo_item(_docinfo, "subtitle", text)
                /\ SkipNode
                /\ last' = [Ran("visit", "subtitle", text) EXCEPT !.skipped = TRUE]
           ELSE /\ _docinfo' = _docinfo
                /\ Descend("subtitle", None)
                /\ last' = Ran("visit", "subtitle", text)
        /\ UNCHANGED <<pc, _context, section_level, _warned, warnings, docs>>

visit_superscript == VisitPut("superscript", defs.superscript[1])

depart_superscript == DepartPut("superscript", defs.superscript[2])

\* the line visit_system_message writes
SystemMessage(type, level, source, line) ==
    <<"\"System Message: ", type, "/", level, SP, "(", source, ":">>
    \o line \o <<")", "\"", NL>>

visit_system_message ==
    \E hasline \in BOOLEAN :
        VisitPut("system_message",
                 SystemMessage("ERROR", "3", "doc.rst",
                               IF hasline THEN <<",", SP, "line", SP, "7">>
                                          ELSE <<>>))

depart_system_message == DepartPass("system_message")

\* the heading of the document title
TitleHeading(text) == <<"#", SP>> \o text \o <<NL>>

\* the heading of a section title with as many '#' as the section depth
SectionHeading_level(level, text) ==
    Hashes(level) \o <<SP>> \o deunicode(text) \o <<NL>>

\* the heading of a section title
SectionHeading(level, text) ==
    Hashes(level + 1) \o <<SP>> \o deunicode(text) \o <<NL>>

visit_title ==
    \E text \in TitleTexts :
        /\ Reach
        /\ IF section_level = 0
           THEN /\ _context' = [_context EXCEPT ![Len(_context)] =
                                    put_head(@, TitleHeading(text))]
                /\ _docinfo' = [_docinfo EXCEPT !.title = text]
           ELSE /\ PutBody(SectionHeading(section_level, text))
                /\ _docinfo' = _docinfo
        /\ SkipNode
        /\ last' = [Ran("visit", "title", text) EXCEPT !.skipped = TRUE]
        /\ UNCHANGED <<pc, section_level, _warned, warnings, docs>>

visit_transition ==
    /\ Reach
    /\ SkipNode
    /\ PutBody(<<NL, "-", "-", "-", NL, NL>>)
    /\ last' = [Ran("visit", "transition", <<NL, "-", "-", "-", NL, NL>>)
                    EXCEPT !.skipped = TRUE]
    /\ Keep

visit_bullet_list == VisitPass("bullet_list")

depart_bullet_list == DepartPass("bullet_list")

visit_enumerated_list == VisitPass("enumerated_list")

depart_enumerated_list == DepartPass("enumerated_list")

visit_list_item ==
    VisitPush("list_item", Context("ListItemContext", "", nodes + 1), <<>>)

depart_list_item == DepartPop("list_item")

visit_reference ==
    \E refuri \in RefUris :
        /\ Reach
        /\ Descend("reference", refuri)
        /\ PutBody(<<"[">>)
        /\ last' = Ran("visit", "reference", <<"[">>)
        /\ Keep

\* node.attributes['refuri'] raises KeyError when the node has no refuri
depart_reference ==
    /\ Departing("reference")
    /\ IF Last(path).refuri = None
       THEN /\ pc' = "error"
            /\ last' = Ran("KeyError", "reference", <<>>)
            /\ UNCHANGED <<path, _context>>
       ELSE /\ pc' = pc
            /\ Leave
            /\ PutBody(<<"]", "(">> \o Last(path).refuri \o <<")">>)
            /\ last' = Ran("depart", "reference",
                           <<"]", "(">> \o Last(path).refuri \o <<")">>)
    /\ UNCHANGED <<section_level, _docinfo, _warned, warnings, nodes, docs>>

visit_target == VisitPass("target")

depart_target == DepartPass("target")

visit_math == VisitPut("math", defs.math[1])

depart_math == DepartPut("math", defs.math[2])

visit_math_block ==
    VisitPush("math_block", Context("MathContext", "", nodes + 1), <<>>)

depart_math_block == DepartPop("math_block")

\* visit_unsupported warning of every occurrence
Warns_always(node_type, warned) == TRUE

\* whether visit_unsupported calls reporter.warning for node_type
Warns(node_type, warned) == node_type \notin warned

\* text is node.astext(), which the hook does not read
visit_unsupported ==
    \E node_type \in UnsupportedSample, text \in DocinfoTexts :
        /\ Reach
        /\ warnings' = IF Warns(node_type, _warned)
                       THEN Append(warnings, [doc |-> docs, node_type |-> node_type])
                       ELSE warnings
        /\ _warned' = _warned \cup {node_type}
        /\ SkipNode
        /\ last' = [Ran("visit", node_type, text) EXCEPT
                        !.skipped = TRUE,
                        !.warned = Warns(node_type, _warned)]
        /\ UNCHANGED <<pc, _context, section_level, _docinfo, docs>>

\* NodeVisitor.unknown_visit of docutils, reached for a kind with no visit
\* hook: it raises NotImplementedError
unknown_visit ==
    \E kind \in UnhookedSample :
        /\ Reach
        /\ pc' = "error"
        /\ nodes' = nodes + 1
        /\ last' = Ran("NotImplementedError", kind, <<>>)
        /\ UNCHANGED <<path, _context, section_level, _docinfo, _warned,
                       warnings, docs>>

\* NodeVisitor.unknown_departure of docutils, reached for an open node whose
\* kind has no depart hook: it raises NotImplementedError
unknown_departure ==
    /\ pc = "walk"
    /\ Len(path) > 1
    /\ Last(path).kind \notin DepartDefined
    /\ pc' = "error"
    /\ last' = Ran("NotImplementedError", Last(path).kind, <<>>)
    /\ UNCHANGED <<path, _context, section_level, _docinfo, _warned,
                   warnings, nodes, docs>>

Next ==
    \/ Translator_init
    \/ visit_document \/ depart_document
    \/ visit_literal_block \/ depart_literal_block
    \/ visit_literal \/ depart_literal
    \/ visit_inline \/ depart_inline
    \/ visit_block_quote \/ depart_block_quote
    \/ visit_Text
    \/ visit_comment
    \/ visit_emphasis \/ depart_emphasis
    \/ visit_paragraph \/ depart_paragraph
    \/ visit_problematic \/ depart_problematic
    \/ visit_section \/ depart_section
    \/ visit_strong \/ depart_strong
    \/ visit_subscript \/ depart_subscript
    \/ visit_subtitle
    \/ visit_superscript \/ depart_superscript
    \/ visit_system_message \/ depart_system_message
    \/ visit_title
    \/ visit_transition
    \/ visit_bullet_list \/ depart_bullet_list
    \/ visit_enumerated_list \/ depart_enumerated_list
    \/ visit_list_item \/ depart_list_item
    \/ visit_reference \/ depart_reference
    \/ visit_target \/ depart_target
    \/ visit_math \/ depart_math
    \/ visit_math_block \/ depart_math_block
    \/ visit_unsupported
    \/ unknown_visit \/ unknown_departure

Spec == Init /\ [][Next]_vars

\* the documents whose nodes are sections, titles, paragraphs, texts,
\* references and the four kinds that buffer their children
NextNesting ==
    \/ visit_document \/ depart_document
    \/ visit_literal_block \/ depart_literal_block
    \/ visit_block_quote \/ depart_block_quote
    \/ visit_Text
    \/ visit_paragraph \/ depart_paragraph
    \/ visit_section \/ depart_section
    \/ visit_title
    \/ visit_list_item \/ depart_list_item
    \/ visit_reference \/ depart_reference
    \/ visit_math_block \/ depart_math_block

SpecNesting == Init /\ [][NextNesting]_vars

\* the documents, several in one process, whose nodes are unsupported kinds,
\* comments, paragraphs, texts and block quotes
NextWarned ==
    \/ Translator_init
    \/ visit_document \/ depart_document
    \/ visit_block_quote \/ depart_block_quote
    \/ visit_Text
    \/ visit_comment
    \/ visit_paragraph \/ depart_paragraph
    \/ visit_unsupported

SpecWarned == Init /\ [][NextWarned]_vars

----------------------------------------------------------------------------
(* Properties *)

Count(seq, x) == Cardinality({i \in DOMAIN seq : seq[i] = x})

EndsWith(seq, suffix) ==
    /\ Len(seq) >= Len(suffix)
    /\ SubSeq(seq, Len(seq) - Len(suffix) + 1, Len(seq)) = suffix

Popped(kind) == last.op = "depart" /\ last.kind = kind

Visited(kind) == last.op = "visit" /\ last.kind = kind

\* the open nodes whose visit hook pushed a context, outermost first
PushingNodes == SelectSeq(path, LAMBDA n : n.kind \in Pushing)

ContextClass ==
    [literal_block |-> "LiteralContext", block_quote |-> "QuoteContext",
     list_item |-> "ListItemContext", math_block |-> "MathContext"]

\* C1: the context stack mirrors the nesting of the open nodes. It is never
\* empty and its bottom is the root context; above it lie exactly the
\* contexts of the open literal blocks, block quotes, list items and math
\* blocks, in the order of nesting, none of them finalized yet. A depart
\* hook of such a node pops the context that its own visit hook pushed,
\* finalized once, and what it leaves at the end of the new top is that
\* finalized context. When the walk is over only the root context is left,
\* and it was never finalized.
C1_StackDiscipline ==
    /\ Len(_context) >= 1
    /\ _context[1].cls = "Context" /\ _context[1].owner = 0
    /\ Len(_context) = 1 + Len(PushingNodes)
    /\ \A i \in 1..Len(PushingNodes) :
          /\ _context[i + 1].owner = PushingNodes[i].id
          /\ _context[i + 1].cls = ContextClass[PushingNodes[i].kind]
    /\ \A i \in 1..Len(_context) : _context[i].finalized = 0
    /\ \A kind \in Pushing :
          Popped(kind) =>
              /\ last.popped.cls = ContextClass[kind]
              /\ last.popped.owner \notin {n.id : n \in {path[i] : i \in 1..Len(path)}}
              /\ last.popped.owner > Last(path).id
              /\ last.merged.finalized = 1
              /\ EndsWith(output.head, last.merged.head)
              /\ EndsWith(output.body, last.merged.body)
              /\ EndsWith(output.foot, last.merged.foot)
    /\ pc = "done" => Len(_context) = 1 /\ path = <<>>

\* a context was popped from inside another buffered context, and changed
\* by its finalize
C1_Witness ==
    /\ \E kind \in Pushing : Popped(kind)
    /\ Len(_context) >= 2
    /\ last.popped.body # <<>>
    /\ last.merged.body # last.popped.body

\* the section nodes that are open
OpenSections == Len(SelectSeq(path, LAMBDA n : n.kind = "section"))

\* the number of '#' a text starts with
RECURSIVE Markers(_)
Markers(text) ==
    IF text # <<>> /\ Head(text) = "#" THEN 1 + Markers(Tail(text)) ELSE 0

\* C2: the section depth counter equals the number of open section nodes,
\* is never negative and is 0 when the walk is over; a title visited while
\* n >= 1 sections are open appends to the body of the current context a
\* heading of exactly n + 1 '#' followed by a space, and its children are
\* skipped.
C2_HeadingDepth ==
    /\ section_level = OpenSections
    /\ section_level >= 0
    /\ pc = "done" => section_level = 0
    /\ (Visited("title") /\ OpenSections >= 1) =>
          /\ last.skipped
          /\ output.body # <<>>
          /\ Markers(Last(output.body)) = OpenSections + 1
          /\ Last(output.body)[OpenSections + 2] = SP
          /\ Last(Last(output.body)) = NL

\* a title is visited in a buffered context inside a section, and one under
\* two nested sections
C2_Witness ==
    /\ Visited("title")
    /\ \/ OpenSections = 1 /\ Len(_context) >= 2
       \/ OpenSections = 2

\* the heads of the contexts of the stack, bottom first
RECURSIVE Heads(_)
Heads(stack) ==
    IF stack = <<>> THEN <<>> ELSE Head(stack).head \o Heads(Tail(stack))

IsTitleHeading(line) == \E text \in TitleTexts : line = TitleHeading(text)

\* C3 as stated: when the walk is over and a title was visited at section
\* depth 0, the head region is the one heading line of the docinfo title
\* and astext() is that line followed by the body.
C3_OneTitleLine ==
    (pc = "done" /\ _docinfo.title # <<>>) =>
        /\ output.head = <<TitleHeading(_docinfo.title)>>
        /\ astext = TitleHeading(_docinfo.title) \o Join(output.body)

\* C3, amended: a title visited at section depth 0 has its children skipped,
\* appends its heading line '# <text>' to the head of the current context
\* and sets the docinfo title to its text; the head regions hold nothing but
\* such heading lines, and they reach the root in visit order, so that
\* astext() is the heading lines followed by the body and the last of them
\* is the heading of the docinfo title. When exactly one title was visited at
\* depth 0, astext() is its heading line followed by the body.
C3_TitleLines ==
    /\ \A i \in 1..Len(Heads(_context)) : IsTitleHeading(Heads(_context)[i])
    /\ (_docinfo.title # <<>>) =>
          /\ Heads(_context) # <<>>
          /\ Last(Heads(_context)) = TitleHeading(_docinfo.title)
    /\ (Visited("title") /\ section_level = 0) =>
          /\ last.skipped
          /\ output.head # <<>>
          /\ Last(output.head) = TitleHeading(last.text)
          /\ _docinfo.title = last.text
    /\ pc = "done" =>
          /\ astext = Join(output.head) \o Join(output.body)
          /\ Len(output.head) = 1 => C3_OneTitleLine

\* the walk is over; its one title at depth 0 was visited inside a block
\* quote, after a text
C3_Witness ==
    /\ pc = "done"
    /\ output.head = <<TitleHeading(<<"T">>)>>
    /\ output.body = << <<">", SP, "a">> >>

\* the warnings of the process for a kind, and those of one document
WarningsOf(node_type) ==
    Cardinality({i \in DOMAIN warnings : warnings[i].node_type = node_type})

WarningsIn(doc, node_type) == Count(warnings, [doc |-> doc, node_type |-> node_type])

VisitedUnsupported == last.op = "visit" /\ last.kind \in Unsupported

\* C5 as stated: in every translation of the process, once a node of an
\* unsupported kind was visited the warning for the kind was emitted exactly
\* once during that translation, and the node was skipped.
C5_OncePerDocument ==
    VisitedUnsupported =>
        /\ last.skipped
        /\ WarningsIn(docs, last.kind) = 1

C5_Once ==
    /\ \A node_type \in Unsupported :
          /\ WarningsOf(node_type) <= 1
          /\ node_type \in _warned <=> WarningsOf(node_type) = 1
    /\ VisitedUnsupported =>
          /\ last.skipped
          /\ WarningsOf(last.kind) = 1
          /\ last.warned => WarningsIn(docs, last.kind) = 1
          /\ docs = 1 => WarningsIn(docs, last.kind) = 1

C5_NoText ==
    (last'.op = "visit" /\ last'.kind \in Unsupported /\ nodes' # nodes) =>
        UNCHANGED <<path, _context>>

\* C5, amended: for every kind bound to visit_unsupported the warning is
\* emitted at most once in the process: exactly once in the first translation
\* in which a node of the kind is visited, however many times the kind occurs
\* in it, and not at all in the later translations; every occurrence, in
\* whatever translation, has its subtree skipped and leaves the contexts as
\* they were.
C5_OncePerProcess == []C5_Once /\ [][C5_NoText]_vars

\* a node of an unsupported kind is visited in the second translation of the
\* process, after the first translation warned of the kind
C5_Witness ==
    /\ docs = 2
    /\ VisitedUnsupported
    /\ ~last.warned
    /\ WarningsIn(1, last.kind) = 1

Contains(text, part) ==
    \E i \in 1..(Len(text) - Len(part) + 1) :
        SubSeq(text, i, i + Len(part) - 1) = part

RECURSIVE DropLineBreaks(_)
DropLineBreaks(text) ==
    IF text # <<>> /\ Last(text) = NL THEN DropLineBreaks(Front(text)) ELSE text

\* C4: a block quote whose children produced some body is merged with
\* every line prefixed: its text starts with '> ' and every line break in it
\* is followed by '> ', but for the line breaks of a trailing blank line.
C4_EveryLinePrefixed ==
    (Popped("block_quote") /\ last.popped.body # <<>>) =>
        LET quote == Join(last.merged.body)
            lines == DropLineBreaks(quote)
        IN  /\ StartsWith(quote, <<">", SP>>)
            /\ \A i \in 1..Len(lines) :
                  lines[i] = NL =>
                      /\ i + 2 <= Len(lines)
                      /\ lines[i + 1] = ">"
                      /\ lines[i + 2] = SP

DocinfoItems == {"author", "date", "copyright", "version"}

\* C6: after the visit of an author, a date, a copyright or a version, or of
\* a subtitle whose parent is the document, the node was skipped and its
\* text is in the docinfo record under the key of its kind: the last of the
\* authors, the value of any other key.
C6_DocinfoRecorded ==
    (/\ last.op = "visit"
     /\ \/ last.kind \in DocinfoItems
        \/ last.kind = "subtitle" /\ ParentIsDocument) =>
        /\ last.skipped
        /\ IF last.kind = "author"
           THEN _docinfo.author # <<>> /\ Last(_docinfo.author) = last.text
           ELSE _docinfo[last.kind] = last.text

\* C7: no hook raises anything but SkipNode: the walk of a tree of any of the
\* node kinds, with any of their attributes, is never aborted by an error.
C7_NoError == pc # "error"

Generic == {"code", "code-block"}

\* the first classifier that is not generic, 'python' when there is none
Classifier(classes) ==
    IF \E i \in 1..Len(classes) : classes[i] \notin Generic
    THEN classes[CHOOSE i \in 1..Len(classes) :
                    /\ classes[i] \notin Generic
                    /\ \A j \in 1..(i - 1) : classes[j] \in Generic]
    ELSE "python"

\* C8: the context of a literal block carries from the visit on the first
\* classifier that is neither 'code' nor 'code-block', 'python' when there
\* is none; it is merged as its body between an opening fence with the tag
\* and a closing fence with a blank line, where the tag is 'pycon' exactly
\* when the language is 'python' and the first line of the body starts with
\* '>>>', and the language otherwise.
C8_FenceTag ==
    /\ Visited("literal_block") => output.language = Classifier(last.text)
    /\ Popped("literal_block") =>
          LET tag == IF /\ last.popped.language = "python"
                        /\ StartsWith(Join(last.popped.body), <<">", ">", ">">>)
                     THEN "pycon"
                     ELSE last.popped.language
          IN  last.merged.body = << <<TICK, TICK, TICK, tag, NL>> >>
                                 \o last.popped.body
                                 \o << <<NL, TICK, TICK, TICK, NL, NL>> >>

\* C9: a list item whose body is a one-line text and the blank line of its
\* paragraph is merged as '- ', the text and the blank line. In general the
\* first fragment of a list item is merged with '- ' before it, and in the
\* fragments before the last every line that continues the fragment starts
\* with two spaces and no line holds the two spaces alone.
C9_ListItemIndent ==
    Popped("list_item") =>
        LET body == last.popped.body
            item == last.merged.body
        IN  /\ (/\ Len(body) = 2
                /\ ~Contains(body[1], <<NL>>)
                /\ body[2] = <<NL, NL>>) =>
                   Join(item) = <<"-", SP>> \o body[1] \o <<NL, NL>>
            /\ Len(body) >= 2 =>
                  /\ StartsWith(item[1], <<"-", SP>>)
                  /\ \A i \in 1..(Len(body) - 1) :
                        /\ ~Contains(item[i], <<NL, SP, SP, NL>>)
                        /\ \A p \in 1..(Len(item[i]) - 1) :
                              (item[i][p] = NL /\ item[i][p + 1] # NL) =>
                                  /\ p + 2 <= Len(item[i])
                                  /\ item[i][p + 1] = SP
                                  /\ item[i][p + 2] = SP

\* C10: a list item is merged with as many fragments as its children
\* produced.
C10_SameFragments ==
    Popped("list_item") => Len(last.merged.body) = Len(last.popped.body)

====
